---------------------------- MODULE Spec2Model ----------------------------
(***************************************************************************)
(* Model of the calculator MCP server (src/server.go).                     *)
(*                                                                         *)
(* The server serves one-shot, stateless invocations: the transport hands  *)
(* over one decoded request (phase "received"), the handler registered for *)
(* it runs as a whole and its return values are recorded (phase            *)
(* "responded"), and the server is ready for the next request.  A panic of *)
(* a handler ends the process (phase "crashed") with no response.          *)
(*                                                                         *)
(* Before it serves, main reads TRANSPORT, createMCPServer registers the   *)
(* two tools, the resource and the two prompts one after the other, and    *)
(* main's switch starts the transport (or returns).                        *)
(*                                                                         *)
(* Numbers.  float32 operands are modelled as exact rationals [n, d] over  *)
(* a small grid (rounding of the binary representation is not modelled);   *)
(* a zero denominator stands for the IEEE results of x / 0 (+Inf, -Inf,    *)
(* NaN).  Go's int is modelled as a two's-complement integer of IntBits    *)
(* bits, so that overflow of max-min+1, max+min and int(val)+min wraps as  *)
(* it does in the 64-bit build.                                            *)
(*                                                                         *)
(* Optional values (a JSON field that may be missing, a *int, a nil        *)
(* pointer or nil error) are sequences of length 0 or 1.                   *)
(***************************************************************************)
EXTENDS Integers, Sequences, FiniteSets, TLC

VARIABLES env, pc, transport, registry,
          phase, call, ctx, args, ret, executed, outcome

vars == <<env, pc, transport, registry,
          phase, call, ctx, args, ret, executed, outcome>>

\* the process: its environment, the position of main, the transport main
\* selected and the capabilities registered so far
server == <<env, pc, transport, registry>>

\* the invocation being served
invocation == <<phase, call, ctx, args, ret, executed, outcome>>

-----------------------------------------------------------------------------
(* Bounds of the model *)

\* operands of calculate are the multiples of 1/2 in [-MaxNum, MaxNum]
MaxNum == 2

\* width of Go's int in the model (64 in the build)
IntBits == 8

\* draws of the random source are taken up to this distance from a landmark
MaxDraw == 1

None == <<>>
Some(v) == <<v>>

-----------------------------------------------------------------------------
(* float32 as exact rationals *)

Abs(x) == IF x < 0 THEN -x ELSE x

Sign(x) == IF x < 0 THEN -1 ELSE IF x > 0 THEN 1 ELSE 0

RECURSIVE GCD(_, _)
GCD(a, b) == IF b = 0 THEN a ELSE GCD(b, a % b)

\* the rational n/d in lowest terms with a positive denominator; d = 0 is
\* the IEEE result of a division by zero (n = 1: +Inf, -1: -Inf, 0: NaN)
Rat(n, d) ==
    IF d = 0 THEN [n |-> Sign(n), d |-> 0]
    ELSE LET g == GCD(Abs(n), Abs(d))
         IN  [n |-> Sign(d) * (n \div g), d |-> Abs(d) \div g]

Zero == Rat(0, 1)

FAdd(a, b) == Rat(a.n * b.d + b.n * a.d, a.d * b.d)

FSub(a, b) == Rat(a.n * b.d - b.n * a.d, a.d * b.d)

FMul(a, b) == Rat(a.n * b.n, a.d * b.d)

FDiv(a, b) == Rat(a.n * b.d, a.d * b.n)

\* long division: k more decimal digits of rem/d appended to acc, the last
\* one rounded
RECURSIVE LongDiv(_, _, _, _)
LongDiv(rem, d, k, acc) ==
    IF k = 0 THEN acc + (IF 2 * rem >= d THEN 1 ELSE 0)
    ELSE LongDiv((rem * 10) % d, d, k - 1, acc * 10 + ((rem * 10) \div d))

\* fmt's %f verb: six digits after the point, rounded; the value in
\* millionths, or the sign of an infinity / NaN
FormatF(r) ==
    IF r.d = 0 THEN [special |-> TRUE, digits |-> r.n]
    ELSE [special |-> FALSE,
          digits  |-> Sign(r.n) * LongDiv(Abs(r.n) % r.d, r.d, 6,
                                          Abs(r.n) \div r.d)]

-----------------------------------------------------------------------------
(* ozzo-validation rules, as the code uses them *)

\* validation.IsEmpty on a string and on a float32
IsEmptyString(s) == s = ""

IsEmptyFloat(f) == f.n = 0 /\ f.d # 0

BLANK == "cannot be blank"

INVALID == "must be a valid value"

DIVZERO == "cannot divide by zero"

RANGE == "min must be less than max"

\* validation.Required on a string field
RequiredString(s) == IF IsEmptyString(s) THEN Some(BLANK) ELSE None

\* validation.Required on a float32 field
RequiredFloat(f) == IF IsEmptyFloat(f) THEN Some(BLANK) ELSE None

\* InRule with the allowed set never consulted
InRule_Skip(s, allowed) == None

\* validation.In(allowed...): an empty value is not checked
InRule(s, allowed) ==
    IF IsEmptyString(s) \/ s \in allowed THEN None ELSE Some(INVALID)

\* validation.Field: the rules of one field run in order and stop at the
\* first failure
FirstError(results) ==
    LET bad == {i \in 1..Len(results) : results[i] # None}
    IN  IF bad = {} THEN None
        ELSE results[CHOOSE i \in bad : \A j \in bad : i <= j]

\* validation.ValidateStruct: the failures of all fields, keyed by the
\* field's json name
FieldError(name, result) ==
    IF result = None THEN {} ELSE {[field |-> name, msg |-> result[1]]}

-----------------------------------------------------------------------------
(* main and createMCPServer *)

\* values of the TRANSPORT environment variable ("" is unset)
TransportVals == {"", "stdio", "streamable-http", "sse"}

\* the process environment: TRANSPORT, and whether the process was launched
\* by a client over stdio (stdin and stdout are the client's pipes)
Environments == [TRANSPORT : TransportVals, stdio : BOOLEAN]

\* the registrations of createMCPServer, in program order
Registrations ==
    <<[kind |-> "tool",     name |-> "calculate"],
      [kind |-> "tool",     name |-> "generate-random-number"],
      [kind |-> "resource", name |-> "math-constants"],
      [kind |-> "prompt",   name |-> "calculation-explanation"],
      [kind |-> "prompt",   name |-> "generate-random-number-prompt"]>>

Registered(kind, name) ==
    \E i \in 1..Len(registry) : registry[i] = [kind |-> kind, name |-> name]

\* transport := os.Getenv("TRANSPORT"), "streamable-http" when empty; main
\* then calls createMCPServer
Main_GetEnv ==
    /\ pc = "main"
    /\ transport' = IF env.TRANSPORT = "" THEN "streamable-http"
                    ELSE env.TRANSPORT
    /\ pc' = "createMCPServer"
    /\ UNCHANGED <<env, registry>>
    /\ UNCHANGED invocation

\* the next mcp.AddTool / server.AddResource / server.AddPrompt of
\* createMCPServer; after the last one createMCPServer returns to main
Register ==
    /\ pc = "createMCPServer"
    /\ Len(registry) < Len(Registrations)
    /\ registry' = Append(registry, Registrations[Len(registry) + 1])
    /\ pc' = IF Len(registry) + 1 = Len(Registrations) THEN "switch"
             ELSE "createMCPServer"
    /\ UNCHANGED <<env, transport>>
    /\ UNCHANGED invocation

\* MayServe as if the switch did not wait for createMCPServer to return
MayServe_Early == pc \in {"createMCPServer", "switch"}

\* main may start a transport
MayServe == pc = "switch"

\* the switch of main: server.Run on stdio, startHTTPServer, or no case
\* (main returns)
Main_Switch ==
    /\ MayServe
    /\ pc' = IF transport \in {"stdio", "streamable-http"} THEN "serving"
             ELSE "exited"
    /\ UNCHANGED <<env, transport, registry>>
    /\ UNCHANGED invocation

\* the transport the process serves on, "none" while it serves on none
Serving == IF pc = "serving" THEN transport ELSE "none"

\* the client withdraws the request in flight: its context is cancelled
\* before the handler runs
Cancel ==
    /\ phase = "received"
    /\ ctx = "active"
    /\ ctx' = "cancelled"
    /\ UNCHANGED <<phase, call, args, ret, executed, outcome>>
    /\ UNCHANGED server

-----------------------------------------------------------------------------
(* calculate *)

Operations == {"add", "subtract", "multiply", "divide"}

\* json decoding of the arguments into CalculateParams: a missing field
\* keeps the zero value of its type
DecodeCalculate(raw) ==
    [Operation |-> IF raw.operation = None THEN "" ELSE raw.operation[1],
     Num1      |-> IF raw.num1 = None THEN Zero ELSE raw.num1[1],
     Num2      |-> IF raw.num2 = None THEN Zero ELSE raw.num2[1]]

\* the inline rule of Num2
DivideByZeroRule(p) ==
    IF p.Operation = "divide" /\ p.Num2 = Zero THEN Some(DIVZERO) ELSE None

\* CalculateParams_Validate with no rule on Num2
CalculateParams_Validate_NoNum2Rules(p) ==
    FieldError("operation",
               FirstError(<<RequiredString(p.Operation),
                            InRule(p.Operation, Operations)>>))
    \cup FieldError("num1", FirstError(<<RequiredFloat(p.Num1)>>))

\* CalculateParams_Validate with Num1 not required
CalculateParams_Validate_Num1Optional(p) ==
    FieldError("operation",
               FirstError(<<RequiredString(p.Operation),
                            InRule(p.Operation, Operations)>>))
    \cup FieldError("num2",
                    FirstError(<<RequiredFloat(p.Num2), DivideByZeroRule(p)>>))

CalculateParams_Validate(p) ==
    FieldError("operation",
               FirstError(<<RequiredString(p.Operation),
                            InRule(p.Operation, Operations)>>))
    \cup FieldError("num1", FirstError(<<RequiredFloat(p.Num1)>>))
    \cup FieldError("num2",
                    FirstError(<<RequiredFloat(p.Num2), DivideByZeroRule(p)>>))

\* Compute with the "divide" case missing from the switch
Compute_NoDivide(p) ==
    CASE p.Operation = "add"      -> FAdd(p.Num1, p.Num2)
      [] p.Operation = "subtract" -> FSub(p.Num1, p.Num2)
      [] p.Operation = "multiply" -> FMul(p.Num1, p.Num2)
      [] OTHER                    -> Zero

\* the switch of handleCalculate; no case leaves the zero value of
\* "var result float32"
Compute(p) ==
    CASE p.Operation = "add"      -> FAdd(p.Num1, p.Num2)
      [] p.Operation = "subtract" -> FSub(p.Num1, p.Num2)
      [] p.Operation = "multiply" -> FMul(p.Num1, p.Num2)
      [] p.Operation = "divide"   -> FDiv(p.Num1, p.Num2)
      [] OTHER                    -> Zero

\* the case of the switch that ran
Executed(p) == IF p.Operation \in Operations THEN p.Operation ELSE "none"

\* handleCalculate returning the value of the switch also when validation
\* failed
handleCalculate_PartialOnFailure(p) ==
    LET errs == CalculateParams_Validate(p)
    IN  IF errs # {}
        THEN [res |-> Some([IsError |-> TRUE,
                            Text |-> [fmt |-> "Invalid parameters: %v",
                                      arg |-> errs]]),
              out |-> Some([Result |-> Compute(p)]),
              err |-> Some([wire |-> FALSE, fmt |-> "invalid parameters: %v",
                            arg |-> errs]),
              ran |-> "none"]
        ELSE [res |-> Some([IsError |-> FALSE,
                            Text |-> [fmt |-> "Result: %f",
                                      arg |-> FormatF(Compute(p))]]),
              out |-> Some([Result |-> Compute(p)]),
              err |-> None,
              ran |-> Executed(p)]

handleCalculate(p) ==
    LET errs == CalculateParams_Validate(p)
    IN  IF errs # {}
        THEN [res |-> Some([IsError |-> TRUE,
                            Text |-> [fmt |-> "Invalid parameters: %v",
                                      arg |-> errs]]),
              out |-> Some([Result |-> Zero]),
              err |-> Some([wire |-> FALSE, fmt |-> "invalid parameters: %v",
                            arg |-> errs]),
              ran |-> "none"]
        ELSE [res |-> Some([IsError |-> FALSE,
                            Text |-> [fmt |-> "Result: %f",
                                      arg |-> FormatF(Compute(p))]]),
              out |-> Some([Result |-> Compute(p)]),
              err |-> None,
              ran |-> Executed(p)]

NumVals == {Rat(k, 2) : k \in (-2 * MaxNum)..(2 * MaxNum)}

OperationVals == Operations \cup {"", "modulo"}

MaybeOf(S) == {None} \cup {Some(v) : v \in S}

CalculatePayloads ==
    [operation : MaybeOf(OperationVals),
     num1      : MaybeOf(NumVals),
     num2      : MaybeOf(NumVals)]

\* a tools/call request for "calculate" arrives
ReceiveCalculate ==
    /\ pc = "serving"
    /\ Registered("tool", "calculate")
    /\ phase = "idle"
    /\ \E raw \in CalculatePayloads :
        /\ call' = "calculate"
        /\ args' = raw
    /\ phase' = "received"
    /\ ctx' = "active"
    /\ UNCHANGED <<ret, executed, outcome>>
    /\ UNCHANGED server

HandleCalculate ==
    /\ phase = "received"
    /\ call = "calculate"
    /\ LET r == handleCalculate(DecodeCalculate(args))
       IN  /\ ret' = [res |-> r.res, out |-> r.out, err |-> r.err]
           /\ executed' = r.ran
    /\ outcome' = "returned"
    /\ phase' = "responded"
    /\ UNCHANGED <<call, ctx, args>>
    /\ UNCHANGED server

-----------------------------------------------------------------------------
(* Go's int *)

RECURSIVE Pow2(_)
Pow2(k) == IF k = 0 THEN 1 ELSE 2 * Pow2(k - 1)

MinInt == -Pow2(IntBits - 1)

MaxInt == Pow2(IntBits - 1) - 1

Int_ == MinInt..MaxInt

\* the result of an int operation whose mathematical value is x
Wrap(x) == ((x - MinInt) % Pow2(IntBits)) + MinInt

\* int(f) of the float64 k/2: truncation towards zero
TruncHalf(k) == IF k >= 0 THEN k \div 2 ELSE -((-k) \div 2)

-----------------------------------------------------------------------------
(* generate-random-number *)

Distributions == {"", "uniform", "normal", "exponential"}

DefaultMin == 1

DefaultMax == 100

\* json decoding of the arguments into GenerateRandomNumberParams: a missing
\* min or max is a nil pointer, a missing distribution the empty string
DecodeGenerate(raw) ==
    [Min          |-> raw.min,
     Max          |-> raw.max,
     Distribution |-> IF raw.distribution = None THEN ""
                      ELSE raw.distribution[1]]

\* RangeRule comparing with > in place of >=
RangeRule_Strict(p) ==
    IF p.Min # None /\ p.Max # None /\ p.Min[1] > p.Max[1]
    THEN Some(RANGE) ELSE None

\* the inline rule attached to Min
RangeRule(p) ==
    IF p.Min # None /\ p.Max # None /\ p.Min[1] >= p.Max[1]
    THEN Some(RANGE) ELSE None

GenerateRandomNumberParams_Validate(p) ==
    FieldError("distribution",
               FirstError(<<InRule(p.Distribution, Distributions)>>))
    \cup FieldError("min", FirstError(<<RangeRule(p)>>))

clamp(val, min, max) ==
    IF val < min THEN min
    ELSE IF val > max THEN max
    ELSE val

\* distribution, min and max as handleGenerateRandomNumber uses them
Effective(p) ==
    [distribution |-> IF p.Distribution # "" THEN p.Distribution
                      ELSE "uniform",
     min          |-> IF p.Min # None THEN p.Min[1] ELSE DefaultMin,
     max          |-> IF p.Max # None THEN p.Max[1] ELSE DefaultMax]

\* the argument of rand.Intn
IntnArg(min, max) == Wrap(Wrap(max - min) + 1)

\* rand.Intn(n) panics unless n > 0
IntnPanics(n) == n <= 0

\* what the random source can make of the call, per distribution:
\*   uniform      rand.Intn(n), any of 0..n-1
\*   normal       int(rand.NormFloat64()*stdDev + mean): any int when
\*                stdDev # 0 (a conversion out of range is implementation
\*                dependent), int(mean) when stdDev = 0
\*   exponential  int(rand.ExpFloat64() / lambda), of the sign of max-min;
\*                a conversion out of range gives MinInt or MaxInt
RandomOutcomes(distribution, min, max) ==
    LET d == Wrap(max - min)
    IN  CASE distribution \in {"uniform", ""} ->
               IF IntnPanics(IntnArg(min, max)) THEN {0}
               ELSE 0..(IntnArg(min, max) - 1)
          [] distribution = "normal" ->
               IF d = 0 THEN {TruncHalf(Wrap(max + min))} ELSE Int_
          [] distribution = "exponential" ->
               IF d = 0 THEN {0}
               ELSE IF d > 0 THEN (0..MaxInt) \cup {MinInt}
               ELSE (MinInt..0) \cup {MaxInt}
          [] OTHER -> {0}

\* the draws that decide a branch of the switch or of clamp: the ends of
\* int, zero, the ends and the middle of the requested range, its width and
\* the largest value of rand.Intn
Landmarks(min, max) ==
    {MinInt, MaxInt, 0, min, max, Wrap(max - min),
     TruncHalf(Wrap(max + min)), IntnArg(min, max) - 1,
     IntnArg(min, max) \div 2}

\* the draws the model takes: the outcomes of the random source within
\* MaxDraw of a landmark
Draws(distribution, min, max) ==
    LET near == UNION {(l - MaxDraw)..(l + MaxDraw) : l \in Landmarks(min, max)}
    IN  {v \in near : v \in RandomOutcomes(distribution, min, max)}

\* the switch of handleGenerateRandomNumber on the draw v
Generate(distribution, min, max, v) ==
    CASE distribution \in {"uniform", ""} -> Wrap(v + min)
      [] distribution = "normal"          -> clamp(v, min, max)
      [] distribution = "exponential"     -> clamp(Wrap(v + min), min, max)
      [] OTHER                            -> 0

handleGenerateRandomNumber(p, v) ==
    LET errs == GenerateRandomNumberParams_Validate(p)
        e    == Effective(p)
    IN  IF errs # {}
        THEN [panic |-> FALSE,
              res |-> Some([IsError |-> TRUE,
                            Text |-> [fmt |-> "Invalid parameters: %v",
                                      arg |-> errs]]),
              out |-> Some([Number |-> 0]),
              err |-> Some([wire |-> FALSE, fmt |-> "invalid parameters: %v",
                            arg |-> errs]),
              ran |-> "none"]
        ELSE IF e.distribution \notin Distributions
        THEN [panic |-> FALSE,
              res |-> Some([IsError |-> TRUE,
                            Text |-> [fmt |-> "Invalid distribution: %s",
                                      arg |-> e.distribution]]),
              out |-> Some([Number |-> 0]),
              err |-> Some([wire |-> FALSE, fmt |-> "invalid distribution: %s",
                            arg |-> e.distribution]),
              ran |-> "default"]
        ELSE IF e.distribution \in {"uniform", ""}
                /\ IntnPanics(IntnArg(e.min, e.max))
        THEN [panic |-> TRUE, res |-> None, out |-> None, err |-> None,
              ran |-> e.distribution]
        ELSE LET number == Generate(e.distribution, e.min, e.max, v)
             IN  [panic |-> FALSE,
                  res |-> Some([IsError |-> FALSE,
                                Text |-> [fmt |-> "Generated random number: %d (distribution: %s, range: [%d, %d])",
                                          arg |-> [number |-> number,
                                                   distribution |-> e.distribution,
                                                   min |-> e.min,
                                                   max |-> e.max]]]),
                  out |-> Some([Number |-> number]),
                  err |-> None,
                  ran |-> e.distribution]

IntVals == {MinInt, MinInt + 1, -1, 0, 1, 2, 99, 100, 101, MaxInt - 1, MaxInt}

DistributionVals == Distributions \cup {"poisson"}

GeneratePayloads ==
    [min          : MaybeOf(IntVals),
     max          : MaybeOf(IntVals),
     distribution : MaybeOf(DistributionVals)]

\* a tools/call request for "generate-random-number" arrives
ReceiveGenerateRandomNumber ==
    /\ pc = "serving"
    /\ Registered("tool", "generate-random-number")
    /\ phase = "idle"
    /\ \E raw \in GeneratePayloads :
        /\ call' = "generate-random-number"
        /\ args' = raw
    /\ phase' = "received"
    /\ ctx' = "active"
    /\ UNCHANGED <<ret, executed, outcome>>
    /\ UNCHANGED server

HandleGenerateRandomNumber ==
    /\ phase = "received"
    /\ call = "generate-random-number"
    /\ LET p == DecodeGenerate(args)
           e == Effective(p)
       IN  \E v \in Draws(e.distribution, e.min, e.max) :
             LET r == handleGenerateRandomNumber(p, v)
             IN  /\ ret' = [res |-> r.res, out |-> r.out, err |-> r.err]
                 /\ executed' = r.ran
                 /\ outcome' = IF r.panic THEN "panic" ELSE "returned"
                 /\ phase' = IF r.panic THEN "crashed" ELSE "responded"
    /\ UNCHANGED <<call, ctx, args>>
    /\ UNCHANGED server

-----------------------------------------------------------------------------
(* generate-random-number-prompt *)

DigitChars == <<"0", "1", "2", "3", "4", "5", "6", "7", "8", "9">>

IsDigit(c) == \E i \in 1..10 : DigitChars[i] = c

DigitVal(c) == (CHOOSE i \in 1..10 : DigitChars[i] = c) - 1

\* the number written by a string of digits, or MaxInt + 2 when it is
\* larger than that
RECURSIVE Magnitude(_, _)
Magnitude(str, acc) ==
    IF str = <<>> THEN acc
    ELSE LET next == acc * 10 + DigitVal(Head(str))
         IN  Magnitude(Tail(str),
                       IF next > MaxInt + 2 THEN MaxInt + 2 ELSE next)

\* strconv.Atoi: an optional sign and decimal digits; a syntax error or a
\* value out of the range of int is an error
Atoi(str) ==
    LET signed == str # <<>> /\ Head(str) \in {"+", "-"}
        digits == IF signed THEN Tail(str) ELSE str
        neg    == signed /\ Head(str) = "-"
        m      == Magnitude(digits, 0)
    IN  IF digits = <<>> \/ \E i \in 1..Len(digits) : ~IsDigit(digits[i])
        THEN [ok |-> FALSE, val |-> 0]
        ELSE IF neg /\ m <= -MinInt THEN [ok |-> TRUE, val |-> -m]
        ELSE IF ~neg /\ m <= MaxInt THEN [ok |-> TRUE, val |-> m]
        ELSE [ok |-> FALSE, val |-> 0]

\* the decimal numeral of an integer
RECURSIVE Numeral(_)
Numeral(n) ==
    IF n < 10 THEN <<DigitChars[n + 1]>>
    ELSE Numeral(n \div 10) \o <<DigitChars[(n % 10) + 1]>>

Itoa(n) == IF n < 0 THEN <<"-">> \o Numeral(-n) ELSE Numeral(n)

\* args[key] of the map[string]string: the empty string when the key is
\* missing
PromptArg(value, empty) == IF value = None THEN empty ELSE value[1]

\* min, max and distribution after "Parse arguments with defaults"
PromptEffective(raw) ==
    LET minStr  == PromptArg(raw.min, <<>>)
        maxStr  == PromptArg(raw.max, <<>>)
        distStr == PromptArg(raw.distribution, "")
    IN  [min |-> IF minStr # <<>> /\ Atoi(minStr).ok THEN Atoi(minStr).val
                 ELSE DefaultMin,
         max |-> IF maxStr # <<>> /\ Atoi(maxStr).ok THEN Atoi(maxStr).val
                 ELSE DefaultMax,
         distribution |-> IF distStr # "" THEN distStr ELSE "uniform"]

PromptResult(description, fmt, arg) ==
    Some([Description |-> description,
          Messages |-> <<[Role |-> "user",
                          Text |-> [fmt |-> fmt, arg |-> arg]]>>])

handleGenerateRandomNumberPrompt(raw, v) ==
    LET e == PromptEffective(raw)
    IN  IF e.min >= e.max
        THEN [panic |-> FALSE,
              res |-> PromptResult("", "Invalid range: min (%d) must be less than max (%d)",
                                   [min |-> e.min, max |-> e.max]),
              err |-> None, ran |-> "none"]
        ELSE IF e.distribution \notin Distributions
        THEN [panic |-> FALSE,
              res |-> PromptResult("", "Invalid distribution: %s. Valid distributions are: uniform, normal, exponential",
                                   [distribution |-> e.distribution]),
              err |-> None, ran |-> "none"]
        ELSE IF e.distribution \in {"uniform", ""}
                /\ IntnPanics(IntnArg(e.min, e.max))
        THEN [panic |-> TRUE, res |-> None, err |-> None,
              ran |-> e.distribution]
        ELSE [panic |-> FALSE,
              res |-> PromptResult("Random number generation",
                                   "%s\n\nGenerated random number: %d\nRange: [%d, %d]\nDistribution: %s",
                                   [number |-> Generate(e.distribution,
                                                        e.min, e.max, v),
                                    min |-> e.min, max |-> e.max,
                                    distribution |-> e.distribution]),
              err |-> None, ran |-> e.distribution]

PromptIntStrings ==
    {Itoa(n) : n \in {MinInt, 1, 2, MaxInt, MaxInt + 1}}
    \cup {<<>>, <<"a">>, <<"+", "2">>}

PromptDistributionVals == {"uniform", "normal", "exponential", "poisson"}

PromptPayloads ==
    [min          : MaybeOf(PromptIntStrings),
     max          : MaybeOf(PromptIntStrings),
     distribution : MaybeOf(PromptDistributionVals)]

\* a prompts/get request for "generate-random-number-prompt" arrives
ReceiveGenerateRandomNumberPrompt ==
    /\ pc = "serving"
    /\ Registered("prompt", "generate-random-number-prompt")
    /\ phase = "idle"
    /\ \E raw \in PromptPayloads :
        /\ call' = "generate-random-number-prompt"
        /\ args' = raw
    /\ phase' = "received"
    /\ ctx' = "active"
    /\ UNCHANGED <<ret, executed, outcome>>
    /\ UNCHANGED server

HandleGenerateRandomNumberPrompt ==
    /\ phase = "received"
    /\ call = "generate-random-number-prompt"
    /\ LET e == PromptEffective(args)
       IN  \E v \in Draws(e.distribution, e.min, e.max) :
             LET r == handleGenerateRandomNumberPrompt(args, v)
             IN  /\ ret' = [res |-> r.res, out |-> None, err |-> r.err]
                 /\ executed' = r.ran
                 /\ outcome' = IF r.panic THEN "panic" ELSE "returned"
                 /\ phase' = IF r.panic THEN "crashed" ELSE "responded"
    /\ UNCHANGED <<call, ctx, args>>
    /\ UNCHANGED server

-----------------------------------------------------------------------------
(* math constants resource *)

\* strings that the code slices are sequences of characters
MathConstantsURI == <<"m", "a", "t", "h", ":", "/", "/", "c", "o", "n", "s", "t", "a", "n", "t", "s">>

MathConstantsPrefix == <<"m", "a", "t", "h", ":", "/", "/", "c", "o", "n", "s", "t", "a", "n", "t", "s", "/">>

Name_pi == <<"p", "i">>

Name_e == <<"e">>

Name_golden_ratio == <<"g", "o", "l", "d", "e", "n", "_", "r", "a", "t", "i", "o">>

Name_sqrt2 == <<"s", "q", "r", "t", "2">>

Name_sqrt3 == <<"s", "q", "r", "t", "3">>

Name_ln2 == <<"l", "n", "2">>

Name_ln10 == <<"l", "n", "1", "0">>

Name_euler == <<"e", "u", "l", "e", "r">>

ConstantNames ==
    {Name_pi, Name_e, Name_golden_ratio, Name_sqrt2, Name_sqrt3, Name_ln2, Name_ln10, Name_euler}

\* the values of the constants map, cut after eight decimals
constants(name) ==
    CASE name = Name_pi -> Rat(314159265, 100000000)
      [] name = Name_e -> Rat(271828182, 100000000)
      [] name = Name_golden_ratio -> Rat(161803398, 100000000)
      [] name = Name_sqrt2 -> Rat(141421356, 100000000)
      [] name = Name_sqrt3 -> Rat(173205080, 100000000)
      [] name = Name_ln2 -> Rat(69314718, 100000000)
      [] name = Name_ln10 -> Rat(230258509, 100000000)
      [] name = Name_euler -> Rat(57721566, 100000000)

\* the URIs registered by server.AddResource in createMCPServer
RegisteredResources == {MathConstantsURI}

\* a JSON-RPC error, unlike the errors made by fmt.Errorf
ResourceNotFoundError(uri) ==
    [wire |-> TRUE, code |-> "ResourceNotFound", uri |-> uri]

\* handleMathConstants with the "ok" of the map lookup ignored: an unknown
\* name reads the zero value of the map
handleMathConstants_NoOkCheck(uri) ==
    LET hasPrefix == /\ Len(uri) > Len(MathConstantsPrefix)
                     /\ SubSeq(uri, 1, Len(MathConstantsPrefix))
                            = MathConstantsPrefix
        constantName == IF hasPrefix
                        THEN SubSeq(uri, Len(MathConstantsPrefix) + 1, Len(uri))
                        ELSE <<>>
        value == IF constantName \in ConstantNames
                 THEN constants(constantName) ELSE Zero
    IN  IF uri = MathConstantsURI
        THEN [res |-> Some([Contents |->
                             <<[URI |-> uri,
                                Text |-> [fmt |-> "json",
                                          arg |-> [n \in ConstantNames |->
                                                     FormatF(constants(n))]],
                                MIMEType |-> "application/json"]>>]),
              err |-> None]
        ELSE IF constantName # <<>>
        THEN [res |-> Some([Contents |->
                             <<[URI |-> uri,
                                Text |-> [fmt |-> "%f", arg |-> FormatF(value)],
                                MIMEType |-> "text/plain"]>>]),
              err |-> None]
        ELSE [res |-> None, err |-> Some(ResourceNotFoundError(uri))]

handleMathConstants(uri) ==
    LET hasPrefix == /\ Len(uri) > Len(MathConstantsPrefix)
                     /\ SubSeq(uri, 1, Len(MathConstantsPrefix))
                            = MathConstantsPrefix
        constantName == IF hasPrefix
                        THEN SubSeq(uri, Len(MathConstantsPrefix) + 1, Len(uri))
                        ELSE <<>>
    IN  IF uri = MathConstantsURI
        THEN [res |-> Some([Contents |->
                             <<[URI |-> uri,
                                Text |-> [fmt |-> "json",
                                          arg |-> [n \in ConstantNames |->
                                                     FormatF(constants(n))]],
                                MIMEType |-> "application/json"]>>]),
              err |-> None]
        ELSE IF constantName # <<>>
        THEN IF constantName \notin ConstantNames
             THEN [res |-> None, err |-> Some(ResourceNotFoundError(uri))]
             ELSE [res |-> Some([Contents |->
                                  <<[URI |-> uri,
                                     Text |-> [fmt |-> "%f",
                                               arg |-> FormatF(constants(constantName))],
                                     MIMEType |-> "text/plain"]>>]),
                   err |-> None]
        ELSE [res |-> None, err |-> Some(ResourceNotFoundError(uri))]

\* the server's resources/read: the handler registered for exactly this URI
\* runs; with no such registration the read fails with ResourceNotFound
\* and no handler runs
ReadResource(uri) ==
    IF uri \in RegisteredResources
    THEN [handler |-> "handleMathConstants"] @@ handleMathConstants(uri)
    ELSE [handler |-> "none", res |-> None,
          err |-> Some(ResourceNotFoundError(uri))]

ResourceURIs ==
    {MathConstantsURI, MathConstantsPrefix, <<>>,
     <<"m", "a", "t", "h", ":", "/", "/", "c", "o", "n", "s", "t", "a", "n", "t">>,
     <<"m", "a", "t", "h", ":", "/", "/", "c", "o", "n", "s", "t", "a", "n", "t", "z", "/", "p", "i">>,
     MathConstantsPrefix \o <<"t", "a", "u">>}
    \cup {MathConstantsPrefix \o n : n \in ConstantNames}

\* a resources/read request arrives
ReceiveReadResource ==
    /\ pc = "serving"
    /\ phase = "idle"
    /\ \E uri \in ResourceURIs :
        /\ call' = "read-resource"
        /\ args' = [uri |-> uri]
    /\ phase' = "received"
    /\ ctx' = "active"
    /\ UNCHANGED <<ret, executed, outcome>>
    /\ UNCHANGED server

HandleReadResource ==
    /\ phase = "received"
    /\ call = "read-resource"
    /\ LET r == ReadResource(args.uri)
       IN  /\ ret' = [res |-> r.res, out |-> None, err |-> r.err]
           /\ executed' = r.handler
    /\ outcome' = "returned"
    /\ phase' = "responded"
    /\ UNCHANGED <<call, ctx, args>>
    /\ UNCHANGED server

\* the handler taken by itself, on any request URI

\* longest suffix appended to the registered URI and to the prefix
MaxSuffix == 3

SuffixChars == {"p", "i", "e", "/"}

Suffixes == UNION {[1..k -> SuffixChars] : k \in 0..MaxSuffix}

HandlerURIs ==
    ResourceURIs
    \cup {MathConstantsPrefix \o x : x \in Suffixes}
    \cup {MathConstantsURI \o x : x \in Suffixes}

\* handleMathConstants is called with a request
InvokeMathConstants ==
    /\ phase = "idle"
    /\ \E uri \in HandlerURIs :
        /\ call' = "handleMathConstants"
        /\ args' = [uri |-> uri]
    /\ phase' = "received"
    /\ ctx' = "active"
    /\ UNCHANGED <<ret, executed, outcome>>
    /\ UNCHANGED server

ReturnMathConstants ==
    /\ phase = "received"
    /\ call = "handleMathConstants"
    /\ LET r == handleMathConstants(args.uri)
       IN  ret' = [res |-> r.res, out |-> None, err |-> r.err]
    /\ executed' = "handleMathConstants"
    /\ outcome' = "returned"
    /\ phase' = "responded"
    /\ UNCHANGED <<call, ctx, args>>
    /\ UNCHANGED server

-----------------------------------------------------------------------------

NoReturn == [res |-> None, out |-> None, err |-> None]

Init ==
    /\ env \in Environments
    /\ pc = "main"
    /\ transport = ""
    /\ registry = <<>>
    /\ phase = "idle"
    /\ call = "none"
    /\ ctx = "none"
    /\ args = None
    /\ ret = NoReturn
    /\ executed = "none"
    /\ outcome = "none"

\* the response has been sent; nothing of the invocation is kept
Complete ==
    /\ phase = "responded"
    /\ outcome = "returned"
    /\ phase' = "idle"
    /\ call' = "none"
    /\ ctx' = "none"
    /\ args' = None
    /\ ret' = NoReturn
    /\ executed' = "none"
    /\ outcome' = "none"
    /\ UNCHANGED server

Next ==
    \/ Main_GetEnv
    \/ Register
    \/ Main_Switch
    \/ Cancel
    \/ ReceiveCalculate
    \/ HandleCalculate
    \/ ReceiveGenerateRandomNumber
    \/ HandleGenerateRandomNumber
    \/ ReceiveReadResource
    \/ HandleReadResource
    \/ ReceiveGenerateRandomNumberPrompt
    \/ HandleGenerateRandomNumberPrompt
    \/ Complete

Spec == Init /\ [][Next]_vars

\* the resource handler applied as a function, without the server's lookup
HandlerNext ==
    \/ InvokeMathConstants
    \/ ReturnMathConstants
    \/ Complete

HandlerSpec == Init /\ [][HandlerNext]_vars

-----------------------------------------------------------------------------
(* Properties *)

\* the handler of the current invocation has run
Done == phase \in {"responded", "crashed"}

CalculateDone == call = "calculate" /\ Done

GenerateDone == call = "generate-random-number" /\ Done

ReadDone == call = "read-resource" /\ Done

\* the handler returned an error-flagged result
ErrorFlagged ==
    /\ outcome = "returned"
    /\ ret.res # None
    /\ ret.res[1].IsError

\* the handler returned an unflagged result and a nil error
Succeeded ==
    /\ outcome = "returned"
    /\ ret.res # None
    /\ ~ret.res[1].IsError
    /\ ret.err = None

\* the handler reported a validation failure of this field with this message
Reported(field, msg) ==
    /\ ErrorFlagged
    /\ ret.res[1].Text.fmt = "Invalid parameters: %v"
    /\ [field |-> field, msg |-> msg] \in ret.res[1].Text.arg

\* the handler reported a validation failure of this field
Names(field) ==
    /\ ErrorFlagged
    /\ ret.res[1].Text.fmt = "Invalid parameters: %v"
    /\ \E e \in ret.res[1].Text.arg : e.field = field

\* C1: calculate with operation "divide" and num2 = 0 returns an
\* error-flagged result; no case of the switch runs, the handler returns
\* (no panic), and the error it returns is an ordinary error, not a
\* protocol (JSON-RPC) error
C1_DivideByZeroFlagged ==
    (/\ CalculateDone
     /\ args.operation = Some("divide")
     /\ args.num2 = Some(Zero))
    => /\ ErrorFlagged
       /\ executed = "none"
       /\ ret.out = Some([Result |-> Zero])
       /\ ret.err # None
       /\ ~ret.err[1].wire

C1_Witness ==
    /\ CalculateDone
    /\ args = [operation |-> Some("divide"), num1 |-> Some(Rat(1, 1)),
               num2 |-> Some(Zero)]
    /\ ErrorFlagged
    /\ executed = "none"

\* C2: every calculate payload with an operation of the allowed set and
\* both numbers present (num2 # 0 for divide) passes Validate, also when
\* num1 = 0 or when num2 = 0 with another operation
C2_ValidPayloadsPass ==
    (/\ CalculateDone
     /\ args.operation # None
     /\ args.operation[1] \in Operations
     /\ args.num1 # None
     /\ args.num2 # None
     /\ (args.operation[1] = "divide" => args.num2[1] # Zero))
    => /\ CalculateParams_Validate(DecodeCalculate(args)) = {}
       /\ Succeeded

\* C3: for divide with num2 = 0 the message reported for num2 is "cannot
\* divide by zero", not the blank-value message
C3_DivideByZeroMessage ==
    (/\ CalculateDone
     /\ args.operation = Some("divide")
     /\ args.num2 = Some(Zero))
    => /\ Reported("num2", DIVZERO)
       /\ ~Reported("num2", BLANK)

\* the typed result r is the exact value of the operation on a and b
IsResultOf(op, a, b, r) ==
    /\ r.d > 0
    /\ op = "add" => r.n * a.d * b.d = (a.n * b.d + b.n * a.d) * r.d
    /\ op = "subtract" => r.n * a.d * b.d = (a.n * b.d - b.n * a.d) * r.d
    /\ op = "multiply" => r.n * a.d * b.d = a.n * b.n * r.d
    /\ op = "divide" => r.n * a.d * b.n = a.n * b.d * r.d

\* the digits are r to six decimals, rounded
IsFormatOf(t, r) ==
    /\ ~t.special
    /\ 2 * Abs(t.digits * r.d - r.n * 1000000) <= r.d

\* C4: an accepted calculate request returns an unflagged result whose
\* typed result is num1 + num2, num1 - num2, num1 * num2 or num1 / num2
\* according to the operation, with the text "Result: " and that value; the
\* case of the operation ran
C4_AcceptedComputes ==
    (/\ CalculateDone
     /\ CalculateParams_Validate(DecodeCalculate(args)) = {})
    => /\ Succeeded
       /\ executed = args.operation[1]
       /\ executed \in Operations
       /\ IsResultOf(executed, args.num1[1], args.num2[1],
                     ret.out[1].Result)
       /\ ret.res[1].Text.fmt = "Result: %f"
       /\ IsFormatOf(ret.res[1].Text.arg, ret.out[1].Result)

C4_Witness ==
    /\ CalculateDone
    /\ args = [operation |-> Some("divide"), num1 |-> Some(Rat(1, 1)),
               num2 |-> Some(Rat(2, 1))]
    /\ Succeeded
    /\ ret.out[1].Result = [n |-> 1, d |-> 2]
    /\ ret.res[1].Text.arg = [special |-> FALSE, digits |-> 500000]

\* min and max are both supplied, with min < max
BothSuppliedInOrder ==
    /\ args.min # None
    /\ args.max # None
    /\ args.min[1] < args.max[1]

\* the range that handleGenerateRandomNumber generates in
EffectiveMin == IF args.min # None THEN args.min[1] ELSE DefaultMin

EffectiveMax == IF args.max # None THEN args.max[1] ELSE DefaultMax

\* C5: generate-random-number with min and max both supplied, min < max,
\* and the distribution unset, uniform, normal or exponential succeeds with
\* a number n, min <= n <= max
C5_SuppliedRangeSucceeds ==
    (/\ GenerateDone
     /\ BothSuppliedInOrder
     /\ args.distribution \in MaybeOf(Distributions))
    => /\ Succeeded
       /\ args.min[1] <= ret.out[1].Number
       /\ ret.out[1].Number <= args.max[1]

\* C6: every generate-random-number request that passes validation, also
\* one that supplies only min, only max or neither, generates with
\* effective min < effective max and returns a number of that range
C6_EffectiveRangeOrdered ==
    (/\ GenerateDone
     /\ GenerateRandomNumberParams_Validate(DecodeGenerate(args)) = {})
    => /\ EffectiveMin < EffectiveMax
       /\ Succeeded
       /\ EffectiveMin <= ret.out[1].Number
       /\ ret.out[1].Number <= EffectiveMax

\* C7: the range rule rejects a generate-random-number payload exactly when
\* min and max are both supplied and min >= max
C7_RangeRuleExact ==
    GenerateDone
    => (Reported("min", RANGE)
        <=> (/\ args.min # None
             /\ args.max # None
             /\ args.min[1] >= args.max[1]))

C7_Witness ==
    /\ GenerateDone
    /\ args.min = Some(100)
    /\ args.max = Some(100)
    /\ args.distribution = None
    /\ Reported("min", RANGE)
    /\ executed = "none"

\* C8: a calculate payload in which operation (missing or empty), num1 or
\* num2 is missing is rejected with a failure naming each such field, in an
\* error-flagged result, and no case of the switch runs
C8_MissingFieldNamed ==
    CalculateDone
    => /\ args.operation \in {None, Some("")} => Names("operation")
       /\ args.num1 = None => Names("num1")
       /\ args.num2 = None => Names("num2")
       /\ (args.operation \in {None, Some("")}
           \/ args.num1 = None \/ args.num2 = None)
          => /\ ErrorFlagged
             /\ executed = "none"
             /\ ret.out = Some([Result |-> Zero])

C8_Witness ==
    /\ CalculateDone
    /\ args = [operation |-> Some("add"), num1 |-> None,
               num2 |-> Some(Rat(1, 1))]
    /\ Names("num1")
    /\ ~Names("num2")
    /\ ~Names("operation")
    /\ executed = "none"

\* the value of an optional string field after decoding
Decoded(field) == IF field = None THEN "" ELSE field[1]

\* C9: a calculate operation outside {add, subtract, multiply, divide} and
\* a generate-random-number distribution outside {unset, uniform, normal,
\* exponential} are rejected, in an error-flagged result with nothing
\* computed or generated; a value of the set is not reported as invalid
C9_EnumerationsChecked ==
    /\ CalculateDone
       => IF Decoded(args.operation) \in Operations
          THEN ~Names("operation")
          ELSE /\ Names("operation")
               /\ executed = "none"
               /\ ret.out = Some([Result |-> Zero])
    /\ GenerateDone
       => IF Decoded(args.distribution) \in Distributions
          THEN ~Names("distribution")
          ELSE /\ Reported("distribution", INVALID)
               /\ executed = "none"
               /\ ret.out = Some([Number |-> 0])

C9_Witness ==
    /\ GenerateDone
    /\ args = [min |-> Some(1), max |-> Some(2),
               distribution |-> Some("poisson")]
    /\ Reported("distribution", INVALID)
    /\ executed = "none"

\* C10: reading math://constants/<name> through the server, for a known
\* constant name, reaches handleMathConstants and returns one text/plain
\* content with the value of that constant
C10_NamedConstantRead ==
    \A n \in ConstantNames :
        (ReadDone /\ args.uri = MathConstantsPrefix \o n)
        => /\ executed = "handleMathConstants"
           /\ outcome = "returned"
           /\ ret.err = None
           /\ ret.res # None
           /\ Len(ret.res[1].Contents) = 1
           /\ ret.res[1].Contents[1].MIMEType = "text/plain"
           /\ ret.res[1].Contents[1].Text.arg = FormatF(constants(n))

HandlerDone == call = "handleMathConstants" /\ Done

\* the URIs that handleMathConstants serves
KnownURIs ==
    {MathConstantsURI} \cup {MathConstantsPrefix \o n : n \in ConstantNames}

\* C11: handleMathConstants answers every URI other than math://constants
\* and math://constants/<known name>, also math://constants/ and
\* math://constants/<unknown>, with the protocol error ResourceNotFound and
\* a nil result, and never with contents
C11_UnknownURINotFound ==
    (HandlerDone /\ args.uri \notin KnownURIs)
    => /\ outcome = "returned"
       /\ ret.res = None
       /\ ret.err = Some(ResourceNotFoundError(args.uri))
       /\ ret.err[1].wire

C11_Witness ==
    /\ HandlerDone
    /\ args.uri = MathConstantsPrefix \o <<"p">>
    /\ ret.res = None
    /\ ret.err # None
    /\ ret.err[1].code = "ResourceNotFound"

\* the zero value of the typed result of the tool that ran
ZeroResult ==
    IF call = "calculate" THEN [Result |-> Zero] ELSE [Number |-> 0]

\* the error-flagged result carries a message that says what failed
Descriptive ==
    \/ /\ ret.res[1].Text.fmt = "Invalid parameters: %v"
       /\ ret.res[1].Text.arg # {}
    \/ /\ ret.res[1].Text.fmt = "Invalid distribution: %s"
       /\ ret.res[1].Text.arg # ""

\* the typed result is the value the handler computed and reported
FullyComputed ==
    IF call = "calculate"
    THEN /\ executed \in Operations
         /\ IsResultOf(executed, args.num1[1], args.num2[1],
                       ret.out[1].Result)
    ELSE /\ executed \in Distributions
         /\ ret.res[1].Text.arg.number = ret.out[1].Number

\* C12: when handleCalculate or handleGenerateRandomNumber reports a
\* failure, the result has IsError = true, a descriptive message and the
\* zero typed result; when it reports success, IsError is false and the
\* typed result is the computed value
C12_NoPartialResult ==
    ((CalculateDone \/ GenerateDone) /\ outcome = "returned")
    => /\ ret.res # None
       /\ ret.out # None
       /\ ret.res[1].IsError <=> ret.err # None
       /\ ret.res[1].IsError
          => /\ Descriptive
             /\ ret.out[1] = ZeroResult
             /\ executed \in {"none", "default"}
       /\ ~ret.res[1].IsError => FullyComputed

C12_Witness ==
    /\ CalculateDone
    /\ args = [operation |-> Some("add"), num1 |-> Some(Zero),
               num2 |-> Some(Rat(1, 1))]
    /\ ErrorFlagged
    /\ ret.err # None
    /\ ret.out = Some([Result |-> Zero])

\* C13: every invocation of a handler, for every payload, ends responded
\* with exactly one envelope (a result or an error); no handler ends
\* without a response
C13_AlwaysResponds ==
    Done
    => /\ phase = "responded"
       /\ outcome = "returned"
       /\ (ret.res # None) # (ret.err # None) \/ ErrorFlagged

\* C14: a tool handler whose context was cancelled before it returned
\* yields no success payload
C14_CancelledNoSuccess ==
    (Done /\ ctx = "cancelled"
          /\ call \in {"calculate", "generate-random-number"})
    => ~Succeeded

\* C15: a process launched over stdio serves on the stdio transport,
\* whatever the value of TRANSPORT
C15_StdioDetected ==
    (env.stdio /\ pc \in {"serving", "exited"}) => Serving = "stdio"

\* the registry holds the two tools, the resource and the two prompts
Kinds(kind) == {i \in 1..Len(registry) : registry[i].kind = kind}

FullyRegistered ==
    /\ Cardinality(Kinds("tool")) = 2
    /\ Cardinality(Kinds("resource")) = 1
    /\ Cardinality(Kinds("prompt")) = 2
    /\ \A i, j \in 1..Len(registry) : registry[i] = registry[j] => i = j

\* C16: in every step, serving and dispatching happen only with all five
\* registrations made, and no registration is made once serving has begun
C16_StartupPrecedesServing ==
    [][/\ pc' = "serving" => FullyRegistered'
       /\ phase' # "idle" => (pc' = "serving" /\ FullyRegistered')
       /\ pc = "serving" => registry' = registry]_vars

C16_Witness ==
    /\ pc = "serving"
    /\ FullyRegistered
    /\ phase = "responded"
    /\ call = "read-resource"

PromptDone == call = "generate-random-number-prompt" /\ Done

\* the text of the one message of the prompt result
PromptText == ret.res[1].Messages[1].Text

\* C17: handleGenerateRandomNumberPrompt returns an "Invalid range" or
\* "Invalid distribution" message without generating, or generates with
\* min < max and a number n, min <= n <= max; rand.Intn is never called
\* with a non-positive argument, and the handler always returns a nil
\* error and exactly one user-role message
C17_PromptInRange ==
    PromptDone
    => /\ outcome = "returned"
       /\ executed \in {"uniform", ""}
          => ~IntnPanics(IntnArg(PromptEffective(args).min,
                                 PromptEffective(args).max))
       /\ ret.err = None
       /\ ret.res # None
       /\ Len(ret.res[1].Messages) = 1
       /\ ret.res[1].Messages[1].Role = "user"
       /\ IF executed = "none"
          THEN \/ PromptText.fmt = "Invalid range: min (%d) must be less than max (%d)"
               \/ PromptText.fmt = "Invalid distribution: %s. Valid distributions are: uniform, normal, exponential"
          ELSE /\ PromptText.arg.min = PromptEffective(args).min
               /\ PromptText.arg.max = PromptEffective(args).max
               /\ PromptText.arg.min < PromptText.arg.max
               /\ PromptText.arg.min <= PromptText.arg.number
               /\ PromptText.arg.number <= PromptText.arg.max

=============================================================================
